---- MODULE Spec2Model ----
(***************************************************************************)
(* Model of leveldb's log::Writer (db/log_writer.cc): the block-framed     *)
(* write-ahead-log writer.  The writer's state is its in-block cursor      *)
(* block_offset_ and the sink dest_ it appends to.  A Slice is a pointer   *)
(* into a caller's buffer plus a size; the model keeps it as the buffer's  *)
(* name, an offset into it and a size, so that the bytes of two slices are *)
(* equal only when they are the same bytes of the same buffer.             *)
(***************************************************************************)
EXTENDS Integers, Sequences, FiniteSets, TLC

----------------------------------------------------------------------------
(* Format constants (db/log_format.h) *)

kBlockSize == 32768

kHeaderSize == 7

kZeroType == 0

kFullType == 1

kFirstType == 2

kMiddleType == 3

kLastType == 4

kMaxRecordType == 4

(* Status: OK, or the IOError of the sink call that failed (its ordinal    *)
(* within the AddRecord call, so that two failures are told apart).        *)
OK == 0

(* assert() fired: the process aborts, nothing is returned *)
ABORTED == 0 - 1

----------------------------------------------------------------------------
(* Bounds of the model *)

MaxRecords == 2

MaxSinkCall == 6

MaxFailures == 1

(* Payload sizes AddRecord is called with: empty, small, the sizes that   *)
(* leave 3 and 0 bytes in a fresh block, the 40000 bytes of the documented *)
(* scenario, the largest value of the 2-byte length field (more than two   *)
(* blocks' worth of payload), and a size beyond that field.                *)
PayloadSizes == {0, 100, 32758, 32761, 40000, 65535, 70000}

(* File lengths the writer is constructed on: a new file, a length in the  *)
(* middle of a header, one that leaves exactly a header's room in its      *)
(* block, and the documented resume scenario.                              *)
DestLengths == {0, 3, 65536 + 32761, 32768 + 100}

(* Failure schedules of the sink during one AddRecord call: the ordinals   *)
(* of the sink calls (Append or Flush) that fail.                          *)
FailureSchedules == {F \in SUBSET (1..MaxSinkCall) : Cardinality(F) <= MaxFailures}

----------------------------------------------------------------------------
(* State *)

VARIABLES
    block_offset_,  \* Writer::block_offset_
    dest_,          \* the bytes appended to the sink since construction, as chunks
    dest_length,    \* length of the file when the writer was constructed
    written,        \* history: the slices passed to AddRecord and the status returned
    last,           \* history: what the last AddRecord call did
    failures        \* history: the number of sink calls that have failed

vars == <<block_offset_, dest_, dest_length, written, last, failures>>

----------------------------------------------------------------------------
(* Slices and chunks *)

Slice(data, off, size) == [data |-> data, off |-> off, size |-> size]

(* a bug: only the low byte of the length is stored *)
EncodeLength_LowByte(length) == <<length % 256, 0>>

(* buf[4], buf[5]: the length, little-endian, each byte a char *)
EncodeLength(length) == <<length % 256, (length \div 256) % 256>>

(* crc32c::Mask(crc32c::Extend(type_crc_[t], ptr, length)): the checksum   *)
(* of the type byte followed by the payload bytes, kept symbolic.          *)
Crc(t, data, ptr, length) == <<t, IF length = 0 THEN <<>> ELSE <<Slice(data, ptr, length)>> >>

Header(t, data, ptr, length) ==
    [kind |-> "header", size |-> kHeaderSize,
     crc |-> Crc(t, data, ptr, length),
     len |-> EncodeLength(length),
     type |-> t]

Payload(data, ptr, length) ==
    [kind |-> "payload", size |-> length, slice |-> Slice(data, ptr, length)]

(* Slice("\x00\x00\x00\x00\x00\x00", leftover) *)
Trailer(leftover) == [kind |-> "zeros", size |-> leftover]

RECURSIVE ChunksSize(_)
ChunksSize(cs) == IF cs = <<>> THEN 0 ELSE Head(cs).size + ChunksSize(Tail(cs))

----------------------------------------------------------------------------
(* The sink (WritableFile) as seen during one AddRecord call.  A call is   *)
(* the record c: the writer's cursor, the sink's contents, the ordinal of  *)
(* the last sink call, the failure schedule, and the call's history.  An   *)
(* Append that fails leaves the contents as they were.                     *)

SinkAppend(c, chunk) ==
    LET n  == c.ncalls + 1
        ok == n \notin c.fails
    IN [c EXCEPT !.ncalls = n,
                 !.contents = IF ok THEN Append(@, chunk) ELSE @,
                 !.calls = Append(@, [op |-> "Append", kind |-> chunk.kind, size |-> chunk.size,
                                      ok |-> ok, n |-> n, rec |-> Len(c.emits),
                                      cursor |-> c.block_offset_,
                                      length |-> ChunksSize(c.contents)]),
                 !.s = IF ok THEN OK ELSE n]

SinkFlush(c) ==
    LET n  == c.ncalls + 1
        ok == n \notin c.fails
    IN [c EXCEPT !.ncalls = n,
                 !.calls = Append(@, [op |-> "Flush", kind |-> "flush", size |-> 0,
                                      ok |-> ok, n |-> n, rec |-> Len(c.emits),
                                      cursor |-> c.block_offset_,
                                      length |-> ChunksSize(c.contents)]),
                 !.s = IF ok THEN OK ELSE n]

----------------------------------------------------------------------------
(* Writer::EmitPhysicalRecord *)

EmitAsserts(c, length) ==
    /\ length <= 65535
    /\ c.block_offset_ + kHeaderSize + length <= kBlockSize

(* a bug: the payload is appended and flushed whatever the header's status *)
EmitAppends_PayloadAlways(c, t, data, ptr, length) ==
    LET h == SinkAppend(c, Header(t, data, ptr, length))
        p == SinkAppend(h, Payload(data, ptr, length))
    IN IF h.s = OK
       THEN (IF p.s = OK THEN SinkFlush(p) ELSE p)
       ELSE [SinkFlush(p) EXCEPT !.s = h.s]

(* a bug: the status of the flush is dropped *)
EmitAppends_FlushUnchecked(c, t, data, ptr, length) ==
    LET h == SinkAppend(c, Header(t, data, ptr, length))
    IN IF h.s = OK
       THEN LET p == SinkAppend(h, Payload(data, ptr, length))
            IN IF p.s = OK THEN [SinkFlush(p) EXCEPT !.s = OK] ELSE p
       ELSE h

EmitAppends(c, t, data, ptr, length) ==
    LET h == SinkAppend(c, Header(t, data, ptr, length))
    IN IF h.s = OK
       THEN LET p == SinkAppend(h, Payload(data, ptr, length))
            IN IF p.s = OK THEN SinkFlush(p) ELSE p
       ELSE h

(* a bug: the cursor advances only when the record was written *)
EmitAdvance_OnlyIfOk(c, length) ==
    IF c.s = OK THEN [c EXCEPT !.block_offset_ = @ + kHeaderSize + length] ELSE c

(* a bug: the cursor advances by the payload only *)
EmitAdvance_PayloadOnly(c, length) ==
    [c EXCEPT !.block_offset_ = @ + length]

EmitAdvance(c, length) ==
    [c EXCEPT !.block_offset_ = @ + kHeaderSize + length]

EmitPhysicalRecord(c, t, data, ptr, length) ==
    LET e == [c EXCEPT !.emits = Append(@, [type |-> t, ptr |-> ptr, length |-> length,
                                            cursor |-> c.block_offset_,
                                            first_call |-> c.ncalls + 1])]
    IN IF ~EmitAsserts(c, length)
       THEN [e EXCEPT !.s = ABORTED]
       ELSE EmitAdvance(EmitAppends(e, t, data, ptr, length), length)

----------------------------------------------------------------------------
(* Writer::AddRecord *)

Leftover(offset) == kBlockSize - offset

(* a bug: the block is switched without padding its tail *)
SwitchBlock_NoPadding(c) ==
    LET leftover == Leftover(c.block_offset_)
    IN IF leftover < kHeaderSize
       THEN [c EXCEPT !.block_offset_ = 0]
       ELSE c

(* a bug: the trailer is one byte short *)
SwitchBlock_ShortTrailer(c) ==
    LET leftover == Leftover(c.block_offset_)
    IN IF leftover < kHeaderSize
       THEN LET t == IF leftover > 0
                     THEN [SinkAppend(c, Trailer(leftover - 1)) EXCEPT !.s = c.s]
                     ELSE c
            IN [t EXCEPT !.block_offset_ = 0]
       ELSE c

(* lines 54-67: switch to a new block; the status of the trailer's Append  *)
(* is not looked at.                                                       *)
SwitchBlock(c) ==
    LET leftover == Leftover(c.block_offset_)
    IN IF leftover < kHeaderSize
       THEN LET t == IF leftover > 0
                     THEN [SinkAppend(c, Trailer(leftover)) EXCEPT !.s = c.s]
                     ELSE c
            IN [t EXCEPT !.block_offset_ = 0]
       ELSE c

(* a bug: the header is not counted *)
Avail_NoHeader(offset) == kBlockSize - offset

Avail(offset) == kBlockSize - offset - kHeaderSize

(* a bug: a fragment takes at most half of the room *)
FragmentLength_Half(left, avail) == IF left < avail THEN left ELSE avail \div 2

(* a bug: the payload is never split *)
FragmentLength_NoSplit(left, avail) == left

FragmentLength(left, avail) == IF left < avail THEN left ELSE avail

(* a bug: the type of a middle fragment is left at its zero value *)
TypeOf_MiddleUnset(begin, end) ==
    IF begin /\ end THEN kFullType
    ELSE IF begin THEN kFirstType
    ELSE IF end THEN kLastType
    ELSE kZeroType

(* a bug: begin is tested before begin && end *)
TypeOf_BeginFirst(begin, end) ==
    IF begin THEN kFirstType
    ELSE IF begin /\ end THEN kFullType
    ELSE IF end THEN kLastType
    ELSE kMiddleType

TypeOf(begin, end) ==
    IF begin /\ end THEN kFullType
    ELSE IF begin THEN kFirstType
    ELSE IF end THEN kLastType
    ELSE kMiddleType

(* a bug: ptr is not advanced *)
NextPtr_Stuck(ptr, fragment_length) == ptr

(* ptr += fragment_length *)
NextPtr(ptr, fragment_length) == ptr + fragment_length

(* left -= fragment_length *)
NextLeft(left, fragment_length) == left - fragment_length

(* a bug: the loop goes on after a failure *)
Continue_IgnoreStatus(s, left) == left > 0

(* while (s.ok() && left > 0) *)
Continue(s, left) == s = OK /\ left > 0

RECURSIVE AddRecordLoop(_, _, _, _, _)
AddRecordLoop(c, data, ptr, left, begin) ==
    LET top == [c EXCEPT !.tops = Append(@, c.block_offset_)]
    IN IF ~(Leftover(top.block_offset_) >= 0)
       THEN [top EXCEPT !.s = ABORTED]
       ELSE LET b == SwitchBlock(top)
            IN IF ~(kBlockSize - b.block_offset_ - kHeaderSize >= 0)
               THEN [b EXCEPT !.s = ABORTED]
               ELSE LET avail == Avail(b.block_offset_)
                        fragment_length == FragmentLength(left, avail)
                        end == (left = fragment_length)
                        type == TypeOf(begin, end)
                        e == EmitPhysicalRecord(b, type, data, ptr, fragment_length)
                    IN IF Continue(e.s, NextLeft(left, fragment_length))
                       THEN AddRecordLoop(e, data, NextPtr(ptr, fragment_length),
                                          NextLeft(left, fragment_length), FALSE)
                       ELSE e

(* The whole call: the writer and sink before it, the slice, and the       *)
(* sink's failure schedule during it.                                      *)
AddRecordCall(offset, contents, slice, fails) ==
    AddRecordLoop([block_offset_ |-> offset, contents |-> contents,
                   ncalls |-> 0, fails |-> fails, s |-> OK,
                   calls |-> <<>>, emits |-> <<>>, tops |-> <<>>],
                  slice.data, slice.off, slice.size, TRUE)

----------------------------------------------------------------------------
(* Constructors *)

WriterFresh == 0

(* a bug: the resuming constructor starts at offset 0 *)
WriterResume_Zero(length) == 0

WriterResume(length) == length % kBlockSize

NoCall == [slice |-> Slice(0, 0, 0), fails |-> {}, start |-> 0, start_length |-> 0,
           s |-> OK, calls |-> <<>>, emits |-> <<>>, tops |-> <<>>, n |-> 0]

Init ==
    /\ \E L \in DestLengths :
          /\ dest_length = L
          /\ block_offset_ = IF L = 0 THEN WriterFresh ELSE WriterResume(L)
    /\ dest_ = <<>>
    /\ written = <<>>
    /\ last = NoCall
    /\ failures = 0

AddRecord(size, fails) ==
    /\ Len(written) < MaxRecords
    /\ last.s # ABORTED
    /\ LET slice == Slice(Len(written) + 1, 0, size)
           r == AddRecordCall(block_offset_, dest_, slice, fails)
       IN /\ fails \subseteq 1..r.ncalls
          /\ failures + Cardinality(fails) <= MaxFailures
          /\ block_offset_' = r.block_offset_
          /\ dest_' = r.contents
          /\ written' = Append(written, [slice |-> slice, s |-> r.s])
          /\ last' = [slice |-> slice, fails |-> fails, start |-> block_offset_,
                      start_length |-> dest_length + ChunksSize(dest_),
                      s |-> r.s, calls |-> r.calls, emits |-> r.emits,
                      tops |-> r.tops, n |-> Len(written) + 1]
          /\ failures' = failures + Cardinality(fails)
    /\ UNCHANGED dest_length

Next == \E size \in PayloadSizes, fails \in FailureSchedules : AddRecord(size, fails)

Spec == Init /\ [][Next]_vars

----------------------------------------------------------------------------
(* Byte strings: sequences of non-empty slices, adjacent slices of the     *)
(* same buffer merged, so that two byte strings are equal exactly when     *)
(* they are the same bytes.                                                *)

Join(bytes, slice) ==
    IF slice.size = 0 THEN bytes
    ELSE IF bytes # <<>> /\ bytes[Len(bytes)].data = slice.data
                         /\ bytes[Len(bytes)].off + bytes[Len(bytes)].size = slice.off
         THEN [bytes EXCEPT ![Len(bytes)].size = @ + slice.size]
         ELSE Append(bytes, slice)

Bytes(slice) == Join(<<>>, slice)

(* the 2-byte little-endian length field of a header *)
DecodeLength(len) == len[1] + 256 * len[2]

----------------------------------------------------------------------------
(* The reader of the format (spec section 6): scans the stream from        *)
(* absolute offset pos, block by block; in a block tail shorter than a     *)
(* header it skips a zero trailer; elsewhere it takes a header and its     *)
(* payload, checks them, and joins Full, or First Middle* Last.  A stream  *)
(* that ends inside a trailer, a header or a payload ends the scan there.  *)

RECURSIVE ReadFrom(_, _, _, _, _, _)
ReadFrom(cs, i, pos, in_record, acc, out) ==
    IF i > Len(cs)
    THEN [records |-> out, bad |-> FALSE, partial |-> in_record]
    ELSE LET o == pos % kBlockSize
             Bad == [records |-> out, bad |-> TRUE, partial |-> in_record]
             Eof == [records |-> out, bad |-> FALSE, partial |-> TRUE]
         IN IF cs[i].kind = "cut" THEN Eof
            ELSE IF kBlockSize - o < kHeaderSize
            THEN IF cs[i].kind = "zeros" /\ cs[i].size = kBlockSize - o
                 THEN ReadFrom(cs, i + 1, pos + cs[i].size, in_record, acc, out)
                 ELSE Bad
            ELSE IF cs[i].kind # "header" THEN Bad
            ELSE IF i + 1 > Len(cs) THEN Eof
            ELSE IF cs[i + 1].kind = "cut" THEN Eof
            ELSE IF cs[i + 1].kind # "payload" THEN Bad
            ELSE LET h == cs[i]
                     p == cs[i + 1]
                     length == DecodeLength(h.len)
                     next == pos + kHeaderSize + length
                 IN IF \/ p.size # length
                       \/ o + kHeaderSize + length > kBlockSize
                       \/ h.crc # <<h.type, Bytes(p.slice)>>
                    THEN Bad
                    ELSE IF h.type = kFullType /\ ~in_record
                         THEN ReadFrom(cs, i + 2, next, FALSE, <<>>,
                                       Append(out, Bytes(p.slice)))
                    ELSE IF h.type = kFirstType /\ ~in_record
                         THEN ReadFrom(cs, i + 2, next, TRUE, Bytes(p.slice), out)
                    ELSE IF h.type = kMiddleType /\ in_record
                         THEN ReadFrom(cs, i + 2, next, TRUE, Join(acc, p.slice), out)
                    ELSE IF h.type = kLastType /\ in_record
                         THEN ReadFrom(cs, i + 2, next, FALSE, <<>>,
                                       Append(out, Join(acc, p.slice)))
                    ELSE Bad

ReadLog(cs, start) == ReadFrom(cs, 1, start, FALSE, <<>>, <<>>)

----------------------------------------------------------------------------
(* Helpers of the properties *)

(* a log of that length ends where a record or a trailer may end *)
WellFormedLength(L) == L % kBlockSize = 0 \/ L % kBlockSize >= kHeaderSize

(* the cursor the first fragment of the last call was placed at *)
PlacedAt(cursor) == IF kBlockSize - cursor < kHeaderSize THEN 0 ELSE cursor

Called == last.n > 0

RECURSIVE JoinEmits(_, _, _)
JoinEmits(data, emits, i) ==
    IF i = 0 THEN <<>>
    ELSE Join(JoinEmits(data, emits, i - 1), Slice(data, emits[i].ptr, emits[i].length))

----------------------------------------------------------------------------
(* C1: round trip.  When no sink call has failed, reading the stream a     *)
(* writer (fresh, or resumed on a well-formed log) produced, block by      *)
(* block, yields exactly the payloads passed to AddRecord, in order, and   *)
(* meets no corruption and no unfinished record.                           *)
C1_RoundTrip ==
    (failures = 0 /\ WellFormedLength(dest_length)) =>
        LET r == ReadLog(dest_, dest_length)
        IN /\ ~r.bad
           /\ ~r.partial
           /\ r.records = [i \in 1..Len(written) |-> Bytes(written[i].slice)]

(* two records written and read back, the second one fragmented after a    *)
(* zero trailer                                                            *)
C1_Witness ==
    /\ failures = 0
    /\ Len(written) = 2
    /\ written[1].slice.size = 32758
    /\ written[2].slice.size = 65535
    /\ Len(ReadLog(dest_, dest_length).records) = 2

(* C2: a call without sink failure whose payload is longer than the room   *)
(* in the current block emits First, Middle*, Last, and the fragments      *)
(* joined in emission order are the payload; a payload that fits is        *)
(* emitted as exactly one Full record.                                     *)
C2_Fragments ==
    (Called /\ last.fails = {}) =>
        LET avail == kBlockSize - PlacedAt(last.start) - kHeaderSize
            n == Len(last.emits)
        IN /\ JoinEmits(last.slice.data, last.emits, n) = Bytes(last.slice)
           /\ last.slice.size > avail =>
                 /\ n >= 2
                 /\ last.emits[1].type = kFirstType
                 /\ last.emits[n].type = kLastType
                 /\ \A i \in 2..(n - 1) : last.emits[i].type = kMiddleType
           /\ last.slice.size <= avail =>
                 /\ n = 1
                 /\ last.emits[1].type = kFullType

(* a payload split into First, Middle, Last *)
C2_Witness ==
    /\ Called
    /\ last.fails = {}
    /\ Len(last.emits) = 3
    /\ last.emits[2].type = kMiddleType

(* C3: every header is placed at an in-block offset that leaves room for   *)
(* the whole header, by the writer's cursor and, while no sink call has    *)
(* failed, by its position in the file as well.                            *)
C3_HeaderPlacement ==
    \A i \in 1..Len(last.calls) :
        last.calls[i].kind = "header" =>
            /\ kBlockSize - last.calls[i].cursor >= kHeaderSize
            /\ last.calls[i].cursor >= 0
            /\ failures = 0 =>
                  (dest_length + last.calls[i].length) % kBlockSize = last.calls[i].cursor

(* a header placed at offset 0 after a trailer of 3 zero bytes *)
C3_Witness ==
    /\ Len(last.calls) >= 2
    /\ last.calls[1].kind = "zeros"
    /\ last.calls[1].size = 3
    /\ last.calls[2].kind = "header"
    /\ last.calls[2].cursor = 0

(* the sink calls EmitPhysicalRecord made for the e-th record of the call *)
EmitCalls(e) == SelectSeq(last.calls, LAMBDA k : k.rec = e /\ k.kind # "zeros")

(* the sink calls of the last AddRecord call that failed inside            *)
(* EmitPhysicalRecord                                                      *)
FailedSteps == {i \in 1..Len(last.calls) : ~last.calls[i].ok /\ last.calls[i].kind # "zeros"}

(* file offset at which the e-th record of the last call starts *)
FileOffset(e) == dest_length + last.calls[last.emits[e].first_call].length

(* C4: no assertion of the writer fires: the cursor is within 0..kBlockSize *)
(* at the top of every loop iteration and after every call, and every      *)
(* physical record has a length of at most 65535 and ends within its       *)
(* block, whatever the sink's failures.                                    *)
C4_NoAssertFails ==
    /\ last.s # ABORTED
    /\ block_offset_ >= 0
    /\ block_offset_ <= kBlockSize
    /\ \A i \in 1..Len(last.tops) : last.tops[i] >= 0 /\ last.tops[i] <= kBlockSize
    /\ \A i \in 1..Len(last.emits) :
          /\ last.emits[i].length >= 0
          /\ last.emits[i].length <= 65535
          /\ last.emits[i].cursor + kHeaderSize + last.emits[i].length <= kBlockSize

(* a 65535-byte payload, the loop entered with the cursor at kBlockSize,   *)
(* and a sink failure before                                               *)
C4_Witness ==
    /\ failures > 0
    /\ last.slice.size = 65535
    /\ \E i \in 1..Len(last.tops) : last.tops[i] = kBlockSize
    /\ Len(last.emits) = 3

(* C5: AddRecord returns OK only if the header append, the payload append  *)
(* and the flush of every physical record it emitted succeeded; when one   *)
(* of them fails it returns the status of the first that failed.           *)
C5_StatusOfFirstFailure ==
    Called =>
        /\ last.s = OK =>
              \A e \in 1..Len(last.emits) :
                  LET k == EmitCalls(e)
                  IN /\ Len(k) = 3
                     /\ k[1].kind = "header" /\ k[1].ok
                     /\ k[2].kind = "payload" /\ k[2].ok
                     /\ k[3].op = "Flush" /\ k[3].ok
        /\ FailedSteps # {} =>
              \E i \in FailedSteps :
                  /\ \A j \in FailedSteps : i <= j
                  /\ last.s = last.calls[i].n

(* the flush of the second fragment fails and its status is returned *)
C5_Witness ==
    /\ Called
    /\ Len(last.emits) = 2
    /\ last.s # OK
    /\ \E i \in FailedSteps : last.calls[i].op = "Flush" /\ last.calls[i].rec = 2

(* C6: a failed emission is the end of the call: the failing sink call is  *)
(* the last sink call of the AddRecord call, no further record is emitted, *)
(* and the status returned is that failure.                                *)
C6_StopsOnFailure ==
    \A i \in FailedSteps :
        /\ i = Len(last.calls)
        /\ last.calls[i].rec = Len(last.emits)
        /\ last.s = last.calls[i].n

(* the header of the first fragment fails with payload bytes left over *)
C6_Witness ==
    /\ Called
    /\ last.slice.size = 40000
    /\ Len(last.emits) = 1
    /\ last.emits[1].length < last.slice.size
    /\ \E i \in FailedSteps : last.calls[i].kind = "header"

(* C7 as stated: an empty payload gives one Full record of length 0 and    *)
(* the cursor ends 7 bytes after where it was before the call.             *)
C7_Original ==
    (Called /\ last.slice.size = 0) =>
        /\ Len(last.emits) = 1
        /\ last.emits[1].type = kFullType
        /\ last.emits[1].length = 0
        /\ block_offset_ = last.start + kHeaderSize

(* C7 amended: an empty payload gives one Full record of length 0, and the *)
(* cursor ends 7 bytes after the offset the record was placed at: the      *)
(* cursor before the call, or 0 when fewer than 7 bytes were left in the   *)
(* block.                                                                  *)
C7_EmptyPayload ==
    (Called /\ last.slice.size = 0) =>
        /\ Len(last.emits) = 1
        /\ last.emits[1].type = kFullType
        /\ last.emits[1].length = 0
        /\ last.emits[1].cursor = PlacedAt(last.start)
        /\ block_offset_ = PlacedAt(last.start) + kHeaderSize

(* an empty payload written with 3 bytes left in the block *)
C7_Witness ==
    /\ Called
    /\ last.slice.size = 0
    /\ last.start = kBlockSize - 3
    /\ block_offset_ = kHeaderSize

(* C8 as stated: the cursor starts at the file length modulo the block     *)
(* size, a first payload that fits is one Full record at file offset       *)
(* dest_length, and every physical record written lies within one block    *)
(* of the file.                                                            *)
C8_Original ==
    /\ Len(written) = 0 => block_offset_ = dest_length % kBlockSize
    /\ (/\ Len(written) = 1
        /\ last.fails = {}
        /\ last.slice.size <= kBlockSize - (dest_length % kBlockSize) - kHeaderSize) =>
           /\ Len(last.emits) = 1
           /\ last.emits[1].type = kFullType
           /\ FileOffset(1) = dest_length
    /\ \A e \in 1..Len(last.emits) :
           last.calls[last.emits[e].first_call].ok =>
               FileOffset(e) \div kBlockSize =
                  (FileOffset(e) + kHeaderSize + last.emits[e].length - 1) \div kBlockSize

(* C8, what holds of the code: the writer starts with the cursor at the    *)
(* file length modulo the                                                  *)
(* block size; a first payload that fits in the rest of that block is      *)
(* written as one Full record at file offset dest_length; and while no     *)
(* sink call has failed every physical record lies within one block of the *)
(* file.                                                                   *)
C8_ResumeAlignment ==
    /\ Len(written) = 0 => block_offset_ = dest_length % kBlockSize
    /\ (/\ Len(written) = 1
        /\ last.fails = {}
        /\ last.slice.size <= kBlockSize - (dest_length % kBlockSize) - kHeaderSize) =>
           /\ Len(last.emits) = 1
           /\ last.emits[1].type = kFullType
           /\ FileOffset(1) = dest_length
           /\ dest_[1].kind = "header"
           /\ dest_[2].kind = "payload" /\ dest_[2].slice = last.slice
    /\ failures = 0 =>
           \A e \in 1..Len(last.emits) :
               FileOffset(e) \div kBlockSize =
                  (FileOffset(e) + kHeaderSize + last.emits[e].length - 1) \div kBlockSize

(* the documented scenario: resumed at 32768 + 100, a 100-byte payload *)
C8_Witness ==
    /\ dest_length = 32768 + 100
    /\ Len(written) = 1
    /\ last.start = 100
    /\ last.slice.size = 100
    /\ last.fails = {}
    /\ block_offset_ = 207

(* C9 as stated: on a fresh writer every payload of at most 65535 bytes    *)
(* is written as one Full record whose length field is the payload size.   *)
C9_Original ==
    (/\ Len(written) = 1 /\ dest_length = 0 /\ last.fails = {}
     /\ last.slice.size <= 65535) =>
        /\ Len(last.emits) = 1
        /\ last.emits[1].type = kFullType
        /\ dest_[1].kind = "header"
        /\ DecodeLength(dest_[1].len) = last.slice.size

(* C9 amended: on a fresh writer every payload of at most                  *)
(* kBlockSize - kHeaderSize = 32761 bytes is written as one Full record    *)
(* whose length field is the payload size; a longer payload is split into  *)
(* a First fragment of 32761 bytes, Middle fragments and a Last fragment.  *)
C9_FullOnFreshWriter ==
    /\ (/\ Len(written) = 1 /\ dest_length = 0 /\ last.fails = {}
        /\ last.slice.size <= kBlockSize - kHeaderSize) =>
           /\ Len(last.emits) = 1
           /\ last.emits[1].type = kFullType
           /\ dest_[1].kind = "header"
           /\ dest_[1].type = kFullType
           /\ DecodeLength(dest_[1].len) = last.slice.size
    /\ (/\ Len(written) = 1 /\ dest_length = 0 /\ last.fails = {}
        /\ last.slice.size > kBlockSize - kHeaderSize) =>
           /\ Len(last.emits) >= 2
           /\ last.emits[1].type = kFirstType
           /\ last.emits[1].length = kBlockSize - kHeaderSize
           /\ last.emits[Len(last.emits)].type = kLastType
           /\ \A e \in 2..(Len(last.emits) - 1) : last.emits[e].type = kMiddleType

(* the largest payload that fits a block, on a fresh writer *)
C9_Witness ==
    /\ Len(written) = 1
    /\ dest_length = 0
    /\ last.fails = {}
    /\ last.slice.size = kBlockSize - kHeaderSize
    /\ Len(dest_) = 2
    /\ DecodeLength(dest_[1].len) = 32761

(* C10: in a call without sink failure every fragment but the last fills   *)
(* its block (kBlockSize - cursor - kHeaderSize bytes, ending on the block *)
(* boundary), every Middle fragment has kBlockSize - kHeaderSize bytes,    *)
(* and the next fragment starts at offset 0; 40000 bytes on a fresh writer *)
(* give First of 32761 and Last of 7239 at file offset 32768.              *)
C10_SplitLayout ==
    (Called /\ last.fails = {}) =>
        /\ \A i \in 1..(Len(last.emits) - 1) :
              /\ last.emits[i].length = kBlockSize - last.emits[i].cursor - kHeaderSize
              /\ last.emits[i + 1].cursor = 0
              /\ failures = 0 =>
                    /\ (FileOffset(i) + kHeaderSize + last.emits[i].length) % kBlockSize = 0
                    /\ FileOffset(i + 1) = FileOffset(i) + kHeaderSize + last.emits[i].length
        /\ \A i \in 1..Len(last.emits) :
              last.emits[i].type = kMiddleType =>
                  last.emits[i].length = kBlockSize - kHeaderSize
        /\ (Len(written) = 1 /\ dest_length = 0 /\ last.slice.size = 40000) =>
              /\ Len(last.emits) = 2
              /\ last.emits[1].type = kFirstType /\ last.emits[1].length = 32761
              /\ last.emits[2].type = kLastType /\ last.emits[2].length = 7239
              /\ FileOffset(2) = 32768

(* the 40000-byte scenario *)
C10_Witness ==
    /\ Len(written) = 1
    /\ dest_length = 0
    /\ last.fails = {}
    /\ last.slice.size = 40000
    /\ Len(last.emits) = 2
    /\ block_offset_ = 7246

(* C11 as stated: after construction and after every AddRecord call the    *)
(* current block does not have between 1 and 6 bytes left that are neither *)
(* a header nor zero padding.                                              *)
C11_Original ==
    ~(kBlockSize - block_offset_ > 0 /\ kBlockSize - block_offset_ < kHeaderSize)

(* C11 amended: a call may return with 1 to 6 bytes left in the block,     *)
(* unpadded; the next AddRecord call appends exactly that many zero bytes  *)
(* before its first header, which it places at offset 0, and no header is  *)
(* placed where fewer than 7 bytes are left.                               *)
C11_TailPaddedBeforeUse ==
    Called =>
        /\ block_offset_ >= kHeaderSize
        /\ \A e \in 1..Len(last.emits) : kBlockSize - last.emits[e].cursor >= kHeaderSize
        /\ (kBlockSize - last.start > 0 /\ kBlockSize - last.start < kHeaderSize) =>
              /\ last.calls[1].op = "Append"
              /\ last.calls[1].kind = "zeros"
              /\ last.calls[1].size = kBlockSize - last.start
              /\ last.emits[1].cursor = 0
              /\ last.emits[1].first_call = 2

(* the first call left 3 bytes in the block, the second one padded them *)
C11_Witness ==
    /\ Len(written) = 2
    /\ dest_length = 0
    /\ failures = 0
    /\ written[1].slice.size = 32758
    /\ Len(dest_) >= 3
    /\ dest_[3].kind = "zeros"
    /\ dest_[3].size = 3

(* the stream holds n zero bytes at file offset off *)
ZerosAt(off, n) ==
    \E j \in 1..Len(dest_) :
        /\ dest_[j].kind = "zeros"
        /\ dest_[j].size = n
        /\ dest_length + ChunksSize(SubSeq(dest_, 1, j - 1)) = off

AllReturnedOK == \A i \in 1..Len(written) : written[i].s = OK

(* the trailers of the last call: a trailer is appended exactly at the     *)
(* loop tops that have 1 to 6 bytes left, with that many zero bytes        *)
TrailerCalls ==
    /\ \A i \in 1..Len(last.tops) :
          (kBlockSize - last.tops[i] > 0 /\ kBlockSize - last.tops[i] < kHeaderSize) =>
              \E k \in 1..Len(last.calls) :
                  /\ last.calls[k].kind = "zeros"
                  /\ last.calls[k].cursor = last.tops[i]
                  /\ last.calls[k].size = kBlockSize - last.tops[i]
    /\ \A k \in 1..Len(last.calls) :
          last.calls[k].kind = "zeros" =>
              /\ last.calls[k].size > 0
              /\ last.calls[k].size < kHeaderSize
              /\ last.calls[k].size = kBlockSize - last.calls[k].cursor

(* C12: at every switch to a new block with 1 to 6 bytes left, the stream  *)
(* holds exactly that many zero bytes from the end of the last record to   *)
(* the block boundary, and no trailer is written otherwise.  Stated for    *)
(* the histories in which every AddRecord call returned OK.                *)
C12_TrailerContent ==
    AllReturnedOK =>
        /\ TrailerCalls
        /\ \A k \in 1..Len(last.calls) :
              last.calls[k].kind = "zeros" =>
                  /\ ZerosAt(dest_length + last.calls[k].length, last.calls[k].size)
                  /\ (dest_length + last.calls[k].length + last.calls[k].size) % kBlockSize = 0

(* what holds of the code: the same, while no sink call has failed *)
C12_TrailerContentWhenSinkNeverFails == failures = 0 => C12_TrailerContent

----------------------------------------------------------------------------
(* A crash: the first k bytes appended since construction survive; the     *)
(* chunk the cut falls into is left as a fragment of k - start bytes.      *)

RECURSIVE TruncateFrom(_, _, _, _)
TruncateFrom(cs, i, start, k) ==
    IF i > Len(cs) THEN <<>>
    ELSE IF start + cs[i].size <= k
         THEN <<cs[i]>> \o TruncateFrom(cs, i + 1, start + cs[i].size, k)
    ELSE IF start < k THEN <<[kind |-> "cut", size |-> k - start]>>
    ELSE <<>>

Truncate(cs, k) == TruncateFrom(cs, 1, 0, k)

(* cut positions: at, one byte after and one byte before every boundary    *)
(* between two sink appends                                                *)
CutPoints(cs) ==
    LET ends == {ChunksSize(SubSeq(cs, 1, j)) : j \in 0..Len(cs)}
    IN {k \in UNION {{e - 1, e, e + 1} : e \in ends} : k >= 0 /\ k <= ChunksSize(cs)}

(* the number of logical records whose last physical record (Full or Last) *)
(* ends within the first k bytes                                           *)
CompleteBy(cs, k) ==
    Cardinality({j \in 1..(Len(cs) - 1) :
                    /\ cs[j].kind = "header"
                    /\ cs[j].type \in {kFullType, kLastType}
                    /\ cs[j + 1].kind = "payload"
                    /\ ChunksSize(SubSeq(cs, 1, j + 1)) <= k})

RecoveredAfterCut(k) ==
    LET r == ReadLog(Truncate(dest_, k), dest_length)
        m == CompleteBy(dest_, k)
    IN /\ ~r.bad
       /\ m <= Len(written)
       /\ r.records = [i \in 1..m |-> Bytes(written[i].slice)]

(* C13: whatever byte position a crash cuts the stream at, the reader      *)
(* recovers exactly the logical records whose physical records lie wholly  *)
(* in the surviving bytes, in write order.  Stated for the histories in    *)
(* which every AddRecord call returned OK.                                 *)
C13_CrashRecovery ==
    (AllReturnedOK /\ WellFormedLength(dest_length)) =>
        \A k \in CutPoints(dest_) : RecoveredAfterCut(k)

(* what holds of the code: the same, while no sink call has failed *)
C13_CrashRecoveryWhenSinkNeverFails == failures = 0 => C13_CrashRecovery

(* C14: the type tag of every physical record, as emitted and as stored in *)
(* the headers of the stream, is Full, First, Middle or Last, never Zero.  *)
C14_ZeroTypeNeverEmitted ==
    /\ \A e \in 1..Len(last.emits) :
          /\ last.emits[e].type \in {kFullType, kFirstType, kMiddleType, kLastType}
          /\ last.emits[e].type # kZeroType
          /\ last.emits[e].type <= kMaxRecordType
    /\ \A j \in 1..Len(dest_) :
          dest_[j].kind = "header" =>
              dest_[j].type \in {kFullType, kFirstType, kMiddleType, kLastType}

(* a Middle record was emitted and the stream holds zero padding *)
C14_Witness ==
    /\ \E e \in 1..Len(last.emits) : last.emits[e].type = kMiddleType
    /\ \E j \in 1..Len(dest_) : dest_[j].kind = "zeros"
    /\ \E j \in 1..Len(dest_) : dest_[j].kind = "header" /\ dest_[j].type = kMiddleType

(* the cursor after the e-th EmitPhysicalRecord of the last call *)
CursorAfter(e) == IF e < Len(last.emits) THEN last.tops[e + 1] ELSE block_offset_

(* the bytes the e-th EmitPhysicalRecord of the last call put in the stream *)
BytesWritten(e) ==
    LET k == EmitCalls(e)
    IN (IF Len(k) >= 1 /\ k[1].ok THEN k[1].size ELSE 0)
       + (IF Len(k) >= 2 /\ k[2].ok THEN k[2].size ELSE 0)

(* C15 as stated: every EmitPhysicalRecord advances the cursor by          *)
(* kHeaderSize plus the fragment length, whether its sink calls succeeded  *)
(* or not, and after a failed Append the cursor has moved past bytes that  *)
(* were not written: the stream holds fewer bytes of the record than the   *)
(* cursor moved.                                                           *)
C15_Original ==
    \A e \in 1..Len(last.emits) :
        /\ CursorAfter(e) = last.emits[e].cursor + kHeaderSize + last.emits[e].length
        /\ (\E i \in FailedSteps : last.calls[i].rec = e /\ last.calls[i].op = "Append") =>
              BytesWritten(e) < CursorAfter(e) - last.emits[e].cursor

(* C15 amended: every EmitPhysicalRecord advances the cursor by            *)
(* kHeaderSize plus the fragment length, whether its sink calls succeeded  *)
(* or not.  After a failed header Append the stream holds none of the      *)
(* record's bytes, after a failed payload Append its 7 header bytes; the   *)
(* cursor has then moved past unwritten bytes, except when the failed      *)
(* Append is that of a zero-length payload: the 7 bytes the cursor moved   *)
(* are then all in the stream.                                             *)
C15_CursorAdvancesOnFailure ==
    \A e \in 1..Len(last.emits) :
        /\ CursorAfter(e) = last.emits[e].cursor + kHeaderSize + last.emits[e].length
        /\ BytesWritten(e) <= CursorAfter(e) - last.emits[e].cursor
        /\ \A i \in FailedSteps :
              (last.calls[i].rec = e /\ last.calls[i].op = "Append") =>
                  /\ last.calls[i].kind = "header" => BytesWritten(e) = 0
                  /\ last.calls[i].kind = "payload" => BytesWritten(e) = kHeaderSize
                  /\ (last.calls[i].kind = "payload" /\ last.emits[e].length = 0) =>
                        BytesWritten(e) = CursorAfter(e) - last.emits[e].cursor
                  /\ (last.calls[i].kind = "header" \/ last.emits[e].length > 0) =>
                        BytesWritten(e) < CursorAfter(e) - last.emits[e].cursor

(* the header Append of a 100-byte record failed: nothing was written and  *)
(* the cursor moved by 107                                                 *)
C15_Witness ==
    /\ Called
    /\ last.slice.size = 100
    /\ last.s # OK
    /\ Len(last.emits) = 1
    /\ BytesWritten(1) = 0
    /\ block_offset_ = last.emits[1].cursor + 107

(* C16: the sink calls of a physical record are the header Append, then    *)
(* the payload Append only if the header's succeeded, then the Flush only  *)
(* if the payload's succeeded, one of each at most and one after the       *)
(* other; and all sink calls of a record precede those of the next.        *)
C16_SinkCallOrder ==
    /\ \A e \in 1..Len(last.emits) :
          LET k == EmitCalls(e)
          IN /\ Len(k) >= 1 /\ Len(k) <= 3
             /\ k[1].op = "Append" /\ k[1].kind = "header"
             /\ k[1].n = last.emits[e].first_call
             /\ Len(k) >= 2 <=> k[1].ok
             /\ Len(k) >= 2 => /\ k[2].op = "Append" /\ k[2].kind = "payload"
                               /\ k[2].n = k[1].n + 1
                               /\ k[2].size = last.emits[e].length
             /\ Len(k) = 3 <=> (Len(k) >= 2 /\ k[2].ok)
             /\ Len(k) = 3 => k[3].op = "Flush" /\ k[3].n = k[2].n + 1
             /\ (last.s = OK \/ e < Len(last.emits)) => (Len(k) = 3 /\ k[3].ok)
    /\ \A i, j \in 1..Len(last.calls) :
          i < j => /\ last.calls[i].n < last.calls[j].n
                   /\ last.calls[i].rec <= last.calls[j].rec

(* two fragments written in full: six sink calls, the first fragment's     *)
(* Flush before the second fragment's header                               *)
C16_Witness ==
    /\ Called
    /\ last.s = OK
    /\ Len(last.emits) = 2
    /\ Len(last.calls) = 6
    /\ last.calls[3].op = "Flush"
    /\ last.calls[4].kind = "header"

(* the length of the file *)
StreamLength == dest_length + ChunksSize(dest_)

(* C17 as stated: while no sink call has failed, before every sink call    *)
(* and on return the cursor is congruent to the length of the file modulo  *)
(* the block size.                                                         *)
C17_Original ==
    failures = 0 =>
        /\ block_offset_ % kBlockSize = StreamLength % kBlockSize
        /\ \A k \in 1..Len(last.calls) :
              last.calls[k].cursor % kBlockSize =
                  (dest_length + last.calls[k].length) % kBlockSize

(* C17 amended: while no sink call has failed, the cursor is congruent to  *)
(* the length of the file modulo the block size, and within 0..kBlockSize, *)
(* whenever no EmitPhysicalRecord is in progress: after construction, on   *)
(* return, before a trailer is appended and before a header is appended;   *)
(* before the payload Append and the Flush of a record the file is ahead   *)
(* of the cursor by the bytes of that record already appended.  After a    *)
(* record that ends on a block boundary the cursor is kBlockSize, not 0.   *)
C17_CursorTracksStream ==
    failures = 0 =>
        /\ block_offset_ % kBlockSize = StreamLength % kBlockSize
        /\ block_offset_ >= 0 /\ block_offset_ <= kBlockSize
        /\ (Called /\ StreamLength % kBlockSize = 0) => block_offset_ = kBlockSize
        /\ \A k \in 1..Len(last.calls) :
              LET c == last.calls[k]
                  len == last.emits[c.rec].length
              IN /\ c.cursor >= 0 /\ c.cursor <= kBlockSize
                 /\ c.kind \in {"zeros", "header"} =>
                       c.cursor % kBlockSize = (dest_length + c.length) % kBlockSize
                 /\ c.kind = "payload" =>
                       dest_length + c.length = FileOffset(c.rec) + kHeaderSize
                 /\ c.kind = "flush" =>
                       dest_length + c.length = FileOffset(c.rec) + kHeaderSize + len
                 /\ c.kind \in {"payload", "flush"} => c.cursor = last.emits[c.rec].cursor

(* a record that fills its block exactly: the cursor is kBlockSize *)
C17_Witness ==
    /\ failures = 0
    /\ Called
    /\ last.slice.size = 32761
    /\ StreamLength % kBlockSize = 0
    /\ block_offset_ = kBlockSize

(* C18: when a sink call made during an AddRecord call fails, the trailer's *)
(* Append included, the call returns a failure.                            *)
C18_EveryFailureReported ==
    (\E k \in 1..Len(last.calls) : ~last.calls[k].ok) => last.s # OK

(* what holds of the code: a failure inside EmitPhysicalRecord is returned *)
C18_EmitFailureReported == FailedSteps # {} => last.s # OK

(* C19 as stated: every loop iteration consumes at least one payload byte, *)
(* or emits a zero-length First with exactly a header's room left and a    *)
(* non-empty payload, followed by a fragment that consumes; the call emits *)
(* at most 2 + ceil(n / (kBlockSize - kHeaderSize)) records.               *)
C19_Original ==
    Called =>
        LET n == Len(last.emits)
            room == kBlockSize - kHeaderSize
        IN /\ Len(last.tops) = n
           /\ n <= 2 + (last.slice.size + room - 1) \div room
           /\ \A e \in 1..n :
                 \/ last.emits[e].length >= 1
                 \/ /\ last.emits[e].length = 0
                    /\ last.emits[e].type = kFirstType
                    /\ last.emits[e].cursor = kBlockSize - kHeaderSize
                    /\ last.slice.size > 0
                    /\ e < n => (last.emits[e + 1].length >= 1 /\ last.emits[e + 1].cursor = 0)
           /\ \A e \in 1..(n - 1) :
                 ~(last.emits[e].length = 0 /\ last.emits[e + 1].length = 0)

(* C19 amended: as stated, with the one iteration of an empty payload,     *)
(* which emits a Full record of length 0, as a third case.                 *)
C19_Terminates ==
    Called =>
        LET n == Len(last.emits)
            room == kBlockSize - kHeaderSize
        IN /\ Len(last.tops) = n
           /\ n >= 1
           /\ n <= 2 + (last.slice.size + room - 1) \div room
           /\ \A e \in 1..n :
                 \/ last.emits[e].length >= 1
                 \/ /\ last.slice.size = 0
                    /\ n = 1
                    /\ last.emits[e].length = 0
                    /\ last.emits[e].type = kFullType
                 \/ /\ last.emits[e].length = 0
                    /\ last.emits[e].type = kFirstType
                    /\ last.emits[e].cursor = kBlockSize - kHeaderSize
                    /\ last.slice.size > 0
                    /\ e < n => (last.emits[e + 1].length >= 1 /\ last.emits[e + 1].cursor = 0)
           /\ \A e \in 1..(n - 1) :
                 ~(last.emits[e].length = 0 /\ last.emits[e + 1].length = 0)
           /\ last.s = OK =>
                 JoinEmits(last.slice.data, last.emits, n) = Bytes(last.slice)

(* a zero-length First with exactly a header's room left, then the rest of *)
(* a 70000-byte payload in three more records                              *)
C19_Witness ==
    /\ Called
    /\ last.s = OK
    /\ last.slice.size = 70000
    /\ last.start = kBlockSize - kHeaderSize
    /\ Len(last.emits) = 4
    /\ last.emits[1].length = 0
    /\ last.emits[1].type = kFirstType

====
